---- MODULE Spec2Model ----
(***************************************************************************)
(* Model of src/app.py (seo_article_generator): one Streamlit script run   *)
(* (search -> fetch -> extract -> keyword_frequency -> propose_article),   *)
(* and the functions keyword_frequency and propose_article on their own.   *)
(*                                                                         *)
(* The pattern of line 98 uses \p{L}, which the stdlib re module imported  *)
(* on line 20 rejects when it compiles the pattern: keyword_frequency      *)
(* raises re.error on every call, and a run with search results ends at    *)
(* line 181 for its first document.  Lines 183-208 are modelled            *)
(* (DisplayAndAppend, GlobalKeywords, Generate, Render; ScriptNext) but no *)
(* behaviour of Spec takes them.                                           *)
(*                                                                         *)
(* A text is a sequence of characters; a character is a one-element atom   *)
(* ("k", " ", "7"; the letters c-caron and z-caron are written "c_caron"   *)
(* and "z_caron").  A Python call either returns a value or raises:        *)
(* [raised |-> FALSE, value |-> v] or [raised |-> TRUE, exc |-> name].     *)
(***************************************************************************)
EXTENDS Integers, Sequences, FiniteSets, TLC

VARIABLES
    \* ---- the script run (module level code of app.py) ----
    pc,               \* position of the script run
    SERPAPI_API_KEY,  \* module global, line 36 / 154
    query,            \* line 161
    search_results,   \* line 165
    idx,              \* loop index of line 174 (1-based, as enumerate(start=1))
    html,             \* line 179
    text,             \* line 180
    headings,         \* line 180
    kw_freq,          \* line 181
    analyses,         \* line 171 / 190
    all_text,         \* line 172 / 196
    global_kw,        \* line 199
    top_keywords,     \* line 200
    article_md,       \* line 206
    ui,               \* what the run has shown (st.info / st.error / exception / ...)
    corpus,           \* history: the texts joined into all_text so far, in order
    calls,            \* external requests made by the run, in order
    \* ---- keyword_frequency applied to drawn inputs ----
    kfPc, kfText, kfTopN, kfResult,
    \* ---- propose_article applied to drawn inputs ----
    paPc, paQuery, paTopKeywords, paAnalyses, paRequest, paResult

runVars == <<pc, SERPAPI_API_KEY, query, search_results, idx, html, text, headings,
             kw_freq, analyses, all_text, global_kw, top_keywords, article_md, ui,
             corpus, calls>>
kfVars  == <<kfPc, kfText, kfTopN, kfResult>>
paVars  == <<paPc, paQuery, paTopKeywords, paAnalyses, paRequest, paResult>>
vars    == <<runVars, kfVars, paVars>>

None == "None"

\* ------------------------------------------------------------------ bounds
\* longest text drawn for keyword_frequency
MaxTextLen == 3
\* largest top_n drawn for keyword_frequency (the smallest is -1)
MaxTopN == 2
\* most organic results the search provider answers with
MaxProviderResults == 4
\* most competitor analyses drawn for propose_article
MaxAnalyses == 2
\* most keywords drawn for propose_article
MaxKeywords == 17

\* ------------------------------------------------------- Python primitives
Return(v) == [raised |-> FALSE, value |-> v]
Raise(e)  == [raised |-> TRUE, exc |-> e]

Min(a, b) == IF a < b THEN a ELSE b

\* s[:n] for a sequence s and n >= 0
Take(s, n) == SubSeq(s, 1, Min(n, Len(s)))

\* characters of the model: letters (lower and upper case), a space, a digit
LowerLetters == {"a", "e", "k", "o", "p", "s", "t", "u", "c_caron", "z_caron"}
UpperLetters == {"K", "P"}
Letters == LowerLetters \cup UpperLetters
Chars == Letters \cup {" ", "7"}

\* str.lower() on one character
lowerChar(c) == CASE c = "K" -> "k" [] c = "P" -> "p" [] OTHER -> c

\* str.lower()
lower(s) == [i \in 1..Len(s) |-> lowerChar(s[i])]

\* ------------------------------------------------------------ the re module
\* The pattern of line 98, r"[\p{L}]+", as the regex parser reads it: a
\* character class holding the escape \p and the literals { L }, repeated.
Pattern == [class |-> <<"\\p", "{", "L", "}">>, repeat |-> "+"]

\* escapes of an ASCII letter, and those of them the stdlib re parser knows
\* inside a character class; stdlib re has no \p{..} property classes
LetterEscapes == {"\\a", "\\b", "\\d", "\\D", "\\f", "\\n", "\\p", "\\P", "\\r",
                  "\\s", "\\S", "\\t", "\\v", "\\w", "\\W"}
KnownClassEscapes == {"\\a", "\\b", "\\d", "\\D", "\\f", "\\n", "\\r",
                      "\\s", "\\S", "\\t", "\\v", "\\w", "\\W"}

\* characters a class member stands for
ClassMember(m) ==
    CASE m = "\\d" -> {"7"}
      [] m = "\\s" -> {" "}
      [] m = "\\w" -> Letters \cup {"7"}
      [] m = "\\D" -> Chars \ {"7"}
      [] m = "\\S" -> Chars \ {" "}
      [] m = "\\W" -> {" "}
      [] OTHER -> {m} \cap Chars

ClassChars(p) == UNION {ClassMember(p.class[i]) : i \in 1..Len(p.class)}

\* re.compile: an escape of an ASCII letter that the parser does not know is
\* an error ("bad escape \p")
re_compile(p) ==
    IF \E i \in 1..Len(p.class) :
           p.class[i] \in LetterEscapes /\ p.class[i] \notin KnownClassEscapes
    THEN Raise("re.error")
    ELSE Return(ClassChars(p))

\* maximal runs of characters of `class` in s, left to right
RECURSIVE Runs(_, _, _, _)
Runs(s, i, cur, class) ==
    IF i > Len(s)
    THEN IF cur = <<>> THEN <<>> ELSE <<cur>>
    ELSE IF s[i] \in class
         THEN Runs(s, i + 1, Append(cur, s[i]), class)
         ELSE IF cur = <<>>
              THEN Runs(s, i + 1, <<>>, class)
              ELSE <<cur>> \o Runs(s, i + 1, <<>>, class)

\* re.findall(pattern, string, re.UNICODE): compiles the pattern first
re_findall(p, s) ==
    LET c == re_compile(p) IN
    IF c.raised THEN c ELSE Return(Runs(s, 1, <<>>, c.value))

\* ---------------------------------------------------------------- app.py
\* STOP_WORDS, lines 42-45
STOP_WORDS == {
    <<"a">>, <<"a", "n", "d">>, <<"a", "r", "e">>, <<"a", "s">>, <<"a", "t">>,
    <<"b", "e">>, <<"b", "y">>, <<"f", "o", "r">>, <<"f", "r", "o", "m">>,
    <<"h", "o", "w">>, <<"i", "n">>, <<"i", "s">>, <<"i", "t">>, <<"o", "f">>,
    <<"o", "n">>, <<"o", "r">>, <<"t", "h", "a", "t">>, <<"t", "h", "e">>,
    <<"t", "h", "i", "s">>, <<"t", "o">>, <<"w", "i", "t", "h">>,
    <<"s", "e">>, <<"c", "o">>, <<"j", "a", "k">>, <<"j", "e">>,
    <<"j", "s", "o", "u">>, <<"n", "a">>, <<"o">>, <<"o", "d">>,
    <<"p", "r", "o">>, <<"s">>, <<"s", "i">>, <<"z">>, <<"v", "e">>,
    <<"z_caron", "e">>, <<"d", "o">>, <<"p", "o", "d", "l", "e">>,
    <<"k", "t", "e", "r", "e_acute">> }

\* the default of keyword_frequency's top_n, line 95
DefaultTopN == 20
\* len(t) > 2, line 99
MinLenExclusive == 2

\* Counter(tokens): (term, count) pairs in order of first occurrence
RECURSIVE Counter(_)
Counter(tokens) ==
    IF tokens = <<>> THEN <<>>
    ELSE LET front == Counter(SubSeq(tokens, 1, Len(tokens) - 1))
             t     == tokens[Len(tokens)]
         IN IF \E i \in 1..Len(front) : front[i][1] = t
            THEN [i \in 1..Len(front) |->
                     IF front[i][1] = t THEN <<t, front[i][2] + 1>> ELSE front[i]]
            ELSE Append(front, <<t, 1>>)

\* sorted(items, key=count, reverse=True): stable, so equal counts keep
\* their order of first occurrence
RECURSIVE SortDesc(_)
SortDesc(items) ==
    IF items = <<>> THEN <<>>
    ELSE LET m == CHOOSE i \in 1..Len(items) :
                     /\ \A j \in 1..Len(items) : items[j][2] <= items[i][2]
                     /\ \A j \in 1..(i - 1) : items[j][2] < items[i][2]
         IN <<items[m]>> \o
            SortDesc([j \in 1..(Len(items) - 1) |->
                         IF j < m THEN items[j] ELSE items[j + 1]])

\* Counter.most_common(n) = heapq.nlargest(n, items, key=count):
\* the n largest in sorted order, and [] for n <= 0
most_common(counts, n) ==
    IF n <= 0 THEN <<>> ELSE Take(SortDesc(counts), n)

\* keyword_frequency, lines 95-101
keyword_frequency(t, top_n) ==
    LET found == re_findall(Pattern, lower(t)) IN
    IF found.raised THEN found
    ELSE LET tokens == SelectSeq(found.value,
                          LAMBDA w : w \notin STOP_WORDS /\ Len(w) > MinLenExclusive)
         IN Return(most_common(Counter(tokens), top_n))

\* ------------------------------------------ keyword_frequency on its own
RECURSIVE SeqsUpTo(_, _)
SeqsUpTo(S, n) ==
    IF n = 0 THEN {<<>>}
    ELSE LET shorter == SeqsUpTo(S, n - 1)
         IN shorter \cup {Append(s, c) : s \in shorter, c \in S}

\* the two documents "kocka pes kocka" and "pes pes auto"
DocKockaPes == <<"k", "o", "c_caron", "k", "a", " ", "p", "e", "s", " ",
                 "k", "o", "c_caron", "k", "a">>
DocPesAuto  == <<"p", "e", "s", " ", "p", "e", "s", " ", "a", "u", "t", "o">>

KFTexts == SeqsUpTo({"k", "K", "a", " ", "7"}, MaxTextLen) \cup {DocKockaPes, DocPesAuto}
KFTopNs == (-1)..MaxTopN \cup {DefaultTopN}

KFIdle == kfPc = "idle" /\ kfText = None /\ kfTopN = 0 /\ kfResult = None

KFInit ==
    /\ kfPc = "call"
    /\ kfText \in KFTexts
    /\ kfTopN \in KFTopNs
    /\ kfResult = None

KFCall ==
    /\ kfPc = "call"
    /\ kfResult' = keyword_frequency(kfText, kfTopN)
    /\ kfPc' = IF kfResult'.raised THEN "raised" ELSE "returned"
    /\ UNCHANGED <<kfText, kfTopN>>
    /\ UNCHANGED <<runVars, paVars>>

KFNext == KFCall

\* ---------------------------------------------------------- the script run
\* num_results of the call of line 165
NumResults == 3

\* urlparse(url).netloc
netloc(u) == <<"netloc", u>>

\* result records of the search provider: a link, and a title or none
ResultPool == {[link |-> "u1", title |-> "T1"], [link |-> "u2", title |-> None]}

\* what search.get_dict() answers: organic results, or a dict without them
\* (an error or an exhausted quota)
ProviderAnswers ==
    {[organic_results |-> r] : r \in SeqsUpTo(ResultPool, MaxProviderResults)}
        \cup {[error |-> "quota"]}

\* results.get("organic_results", [])[:num_results], line 62
google_search(answer, num_results) ==
    Take(IF "organic_results" \in DOMAIN answer THEN answer.organic_results ELSE <<>>,
         num_results)

\* pages of the web: a page is its headings and its plain text
EmptyText == <<>>
PagesAt(u) ==
    IF u = "u1"
    THEN {[headings |-> <<"h1">>, text |-> DocKockaPes],
          [headings |-> <<>>, text |-> EmptyText]}
    ELSE {[headings |-> <<"h1", "h2">>, text |-> DocPesAuto]}

\* the empty string, as a page
EmptyString == [len |-> 0]

\* fetch_html, lines 65-78: the response text, or "" on any RequestException
fetch_html(response) == IF response.ok THEN response.body ELSE EmptyString

\* extract_structure, lines 81-92: (text, headings)
extract_structure(text_html) ==
    IF text_html = EmptyString THEN <<EmptyText, <<>>>>
    ELSE <<text_html.text, text_html.headings>>

\* headings[:10] and kw_freq[:10] of the competitor card, lines 186-188
CardItems == 10

Shown(item) == Append(ui, item)

\* the state after lines 36-39 and 148-149: the key is configured or not
RunInit ==
    /\ pc = "sidebar"
    /\ SERPAPI_API_KEY \in {"", "key"}
    /\ query = None
    /\ search_results = None
    /\ idx = 0
    /\ html = None /\ text = None /\ headings = None /\ kw_freq = None
    /\ analyses = None /\ all_text = None
    /\ global_kw = None /\ top_keywords = None /\ article_md = None
    /\ ui = <<>>
    /\ corpus = <<>>
    /\ calls = <<>>

\* lines 151-159: the sidebar asks for the key when none is configured
Sidebar ==
    /\ pc = "sidebar"
    /\ IF SERPAPI_API_KEY = ""
       THEN /\ \E typed \in {"", "key"} : SERPAPI_API_KEY' = typed
            /\ ui' = Shown([kind |-> "info_key_local"])
       ELSE UNCHANGED <<SERPAPI_API_KEY, ui>>
    /\ pc' = "query"
    /\ UNCHANGED <<query, search_results, idx, html, text, headings, kw_freq,
                   analyses, all_text, global_kw, top_keywords, article_md, calls>>
    /\ UNCHANGED <<corpus, kfVars, paVars>>

\* line 161
QueryInput ==
    /\ pc = "query"
    /\ \E q \in {"", "q1", "q2"} : query' = q
    /\ pc' = "gate"
    /\ UNCHANGED <<SERPAPI_API_KEY, search_results, idx, html, text, headings, kw_freq,
                   analyses, all_text, global_kw, top_keywords, article_md, ui, calls>>
    /\ UNCHANGED <<corpus, kfVars, paVars>>

\* the gate without its test of the key
GateOpenQueryOnly == query # ""

\* the condition of line 163
GateOpen == query # "" /\ SERPAPI_API_KEY # ""

\* lines 163, 210-211
Gate ==
    /\ pc = "gate"
    /\ IF GateOpen
       THEN pc' = "search" /\ UNCHANGED ui
       ELSE pc' = "done" /\ ui' = Shown([kind |-> "info_enter_query_and_key"])
    /\ UNCHANGED <<SERPAPI_API_KEY, query, search_results, idx, html, text, headings,
                   kw_freq, analyses, all_text, global_kw, top_keywords, article_md,
                   calls>>
    /\ UNCHANGED <<corpus, kfVars, paVars>>

\* lines 164-165
Search ==
    /\ pc = "search"
    /\ \E answer \in ProviderAnswers :
          search_results' = google_search(answer, NumResults)
    /\ calls' = Append(calls, [svc |-> "serpapi", q |-> query, num |-> NumResults])
    /\ pc' = "check"
    /\ UNCHANGED <<SERPAPI_API_KEY, query, idx, html, text, headings, kw_freq,
                   analyses, all_text, global_kw, top_keywords, article_md, ui>>
    /\ UNCHANGED <<corpus, kfVars, paVars>>

\* the test of line 167 left out
NoResultsUnchecked(results) == FALSE

\* the condition of line 167
NoResults(results) == results = <<>>

\* lines 167-172, and the first pass through the loop head of line 174
CheckResults ==
    /\ pc = "check"
    /\ IF NoResults(search_results)
       THEN /\ ui' = Shown([kind |-> "error_no_results"])
            /\ pc' = "stopped"
            /\ UNCHANGED <<analyses, all_text, idx>>
       ELSE /\ analyses' = <<>>
            /\ all_text' = <<>>
            /\ IF Len(search_results) >= 1
               THEN idx' = 1 /\ pc' = "fetch"
               ELSE idx' = idx /\ pc' = "global"
            /\ UNCHANGED ui
    /\ UNCHANGED <<SERPAPI_API_KEY, query, search_results, html, text, headings,
                   kw_freq, global_kw, top_keywords, article_md, calls>>
    /\ UNCHANGED <<corpus, kfVars, paVars>>

url   == search_results[idx].link
title == IF search_results[idx].title = None THEN netloc(url)
         ELSE search_results[idx].title

\* lines 175-179
Fetch ==
    /\ pc = "fetch"
    /\ \E response \in {[ok |-> FALSE]} \cup {[ok |-> TRUE, body |-> b] : b \in PagesAt(url)} :
          /\ html' = fetch_html(response)
          /\ calls' = Append(calls, [svc |-> "http", url |-> url, ok |-> response.ok])
    /\ pc' = "extract"
    /\ UNCHANGED <<SERPAPI_API_KEY, query, search_results, idx, text, headings, kw_freq,
                   analyses, all_text, global_kw, top_keywords, article_md, ui>>
    /\ UNCHANGED <<corpus, kfVars, paVars>>

\* line 180
Extract ==
    /\ pc = "extract"
    /\ text' = extract_structure(html)[1]
    /\ headings' = extract_structure(html)[2]
    /\ pc' = "keywords"
    /\ UNCHANGED <<SERPAPI_API_KEY, query, search_results, idx, html, kw_freq,
                   analyses, all_text, global_kw, top_keywords, article_md, ui, calls>>
    /\ UNCHANGED <<corpus, kfVars, paVars>>

\* line 181; an exception nobody catches ends the script run, and Streamlit
\* shows it
Keywords ==
    /\ pc = "keywords"
    /\ LET r == keyword_frequency(text, DefaultTopN) IN
       IF r.raised
       THEN /\ pc' = "exception"
            /\ ui' = Shown([kind |-> "exception", exc |-> r.exc, line |-> 181])
            /\ UNCHANGED kw_freq
       ELSE /\ kw_freq' = r.value
            /\ pc' = "display"
            /\ UNCHANGED ui
    /\ UNCHANGED <<SERPAPI_API_KEY, query, search_results, idx, html, text, headings,
                   analyses, all_text, global_kw, top_keywords, article_md, calls>>
    /\ UNCHANGED <<corpus, kfVars, paVars>>


\* lines 183-196, and the loop head of line 174 for the next result
DisplayAndAppend ==
    /\ pc = "display"
    /\ ui' = Shown([kind |-> "card", idx |-> idx, title |-> title, url |-> url,
                  headings |-> Take(headings, CardItems),
                  top_keywords |-> Take(kw_freq, CardItems)])
    /\ analyses' = Append(analyses, [url |-> url, title |-> title,
                                     headings |-> headings, top_keywords |-> kw_freq])
    /\ all_text' = all_text \o <<" ">> \o text
    /\ corpus' = Append(corpus, text)
    /\ IF idx < Len(search_results)
       THEN idx' = idx + 1 /\ pc' = "fetch"
       ELSE idx' = idx /\ pc' = "global"
    /\ UNCHANGED <<SERPAPI_API_KEY, query, search_results, html, text, headings,
                   kw_freq, global_kw, top_keywords, article_md, calls>>
    /\ UNCHANGED <<kfVars, paVars>>

\* lines 199-200
GlobalKeywords ==
    /\ pc = "global"
    /\ LET r == keyword_frequency(all_text, DefaultTopN) IN
       IF r.raised
       THEN /\ pc' = "exception"
            /\ ui' = Shown([kind |-> "exception", exc |-> r.exc, line |-> 199])
            /\ UNCHANGED <<global_kw, top_keywords>>
       ELSE /\ global_kw' = r.value
            /\ top_keywords' = [i \in 1..Len(r.value) |-> r.value[i][1]]
            /\ pc' = "generate"
            /\ UNCHANGED ui
    /\ UNCHANGED <<SERPAPI_API_KEY, query, search_results, idx, html, text, headings,
                   kw_freq, analyses, all_text, article_md, calls>>
    /\ UNCHANGED <<corpus, kfVars, paVars>>

\* ------------------------------------------------------- propose_article
\* top_keywords[:15], line 119
PromptKeywords == 15
\* json.dumps(...)[:6_000], line 115
JsonCap == 6000

\* json.dumps(analyses): the analyses flattened to (key, value) items, in order
RECURSIVE json_dumps(_)
json_dumps(an) ==
    IF an = <<>> THEN <<>>
    ELSE << <<"url", an[1].url>>, <<"title", an[1].title>>,
            <<"headings", an[1].headings>>, <<"top_keywords", an[1].top_keywords>> >>
         \o json_dumps(Tail(an))

\* the chat request of lines 115-141: what the generation service is given.
\* The user message has three sections: the query, one keyword list and the
\* competitor analysis.
ChatRequest(q, kws, an) ==
    [model   |-> "gpt-4o-mini",
     system  |-> "seo_copywriter",
     user    |-> <<[section |-> "USER QUERY", kind |-> "query", content |-> q],
                   [section |-> "TOP KEYWORDS (frequency sorted)", kind |-> "ranking",
                    content |-> Take(kws, PromptKeywords)],
                   [section |-> "COMPETITOR ANALYSIS (JSON)", kind |-> "summaries",
                    content |-> Take(json_dumps(an), JsonCap)]>>]

\* str.strip() on a sequence of characters
RECURSIVE strip(_)
strip(s) ==
    IF s = <<>> THEN s
    ELSE IF s[1] = " " THEN strip(Tail(s))
    ELSE IF s[Len(s)] = " " THEN strip(SubSeq(s, 1, Len(s) - 1))
    ELSE s

\* answers of the generation service: a message content, or an API error
ServiceAnswers == {Return(<<" ", "a", "b", " ">>), Return(<<"a">>), Raise("openai.APIError")}

\* propose_article, lines 104-142, given the service's answer to its request
propose_article(q, kws, an, answer) ==
    IF answer.raised THEN answer ELSE Return(strip(answer.value))

\* lines 202-206
Generate ==
    /\ pc = "generate"
    /\ calls' = Append(calls, [svc |-> "openai",
                               request |-> ChatRequest(query, top_keywords, analyses)])
    /\ \E answer \in ServiceAnswers :
          LET r == propose_article(query, top_keywords, analyses, answer) IN
          IF r.raised
          THEN /\ pc' = "exception"
               /\ ui' = Shown([kind |-> "exception", exc |-> r.exc, line |-> 206])
               /\ UNCHANGED article_md
          ELSE /\ article_md' = r.value
               /\ pc' = "render"
               /\ ui' = Shown([kind |-> "subheader_article"])
    /\ UNCHANGED <<SERPAPI_API_KEY, query, search_results, idx, html, text, headings,
                   kw_freq, analyses, all_text, global_kw, top_keywords>>
    /\ UNCHANGED <<corpus, kfVars, paVars>>

\* line 208
Render ==
    /\ pc = "render"
    /\ ui' = Shown([kind |-> "article", body |-> article_md])
    /\ pc' = "done"
    /\ UNCHANGED <<SERPAPI_API_KEY, query, search_results, idx, html, text, headings,
                   kw_freq, analyses, all_text, global_kw, top_keywords, article_md,
                   calls>>
    /\ UNCHANGED <<corpus, kfVars, paVars>>

RunIdle ==
    /\ pc = "idle" /\ SERPAPI_API_KEY = "" /\ query = None /\ search_results = None
    /\ idx = 0 /\ html = None /\ text = None /\ headings = None /\ kw_freq = None
    /\ analyses = None /\ all_text = None /\ global_kw = None /\ top_keywords = None
    /\ article_md = None /\ ui = <<>> /\ corpus = <<>> /\ calls = <<>>

\* --------------------------------------------- propose_article on its own
KeywordPool == [i \in 1..MaxKeywords |-> <<"kw", i>>]
AnalysisPool ==
    {[url |-> "u1", title |-> "T1", headings |-> <<"h1">>,
      top_keywords |-> << <<KeywordPool[1], 2>>, <<KeywordPool[2], 1>> >>],
     [url |-> "u2", title |-> netloc("u2"), headings |-> <<>>, top_keywords |-> <<>>]}

PAIdle ==
    /\ paPc = "idle" /\ paQuery = None /\ paTopKeywords = None
    /\ paAnalyses = None /\ paRequest = None /\ paResult = None

PAInit ==
    /\ paPc = "call"
    /\ paQuery \in {"q1", "q2"}
    /\ paTopKeywords \in {Take(KeywordPool, n) : n \in 0..MaxKeywords}
    /\ paAnalyses \in SeqsUpTo(AnalysisPool, MaxAnalyses)
    /\ paRequest = None
    /\ paResult = None

PACall ==
    /\ paPc = "call"
    /\ paRequest' = ChatRequest(paQuery, paTopKeywords, paAnalyses)
    /\ \E answer \in ServiceAnswers :
          paResult' = propose_article(paQuery, paTopKeywords, paAnalyses, answer)
    /\ paPc' = IF paResult'.raised THEN "raised" ELSE "returned"
    /\ UNCHANGED <<paQuery, paTopKeywords, paAnalyses>>
    /\ UNCHANGED <<runVars, kfVars>>

PANext == PACall

\* ------------------------------------------------------------ specifications
Init == RunInit /\ KFIdle /\ PAIdle

\* the steps of the script run that some behaviour takes
Next == Sidebar \/ QueryInput \/ Gate \/ Search \/ CheckResults \/ Fetch \/ Extract
           \/ Keywords

\* the script as written, with the steps after line 181
ScriptNext == Next \/ DisplayAndAppend \/ GlobalKeywords \/ Generate \/ Render

Spec == Init /\ [][Next]_vars

\* keyword_frequency applied to every drawn text and top_n
InitKF == RunIdle /\ KFInit /\ PAIdle
SpecKF == InitKF /\ [][KFNext]_vars

\* propose_article applied to every drawn query, keyword list and analyses
InitPA == RunIdle /\ KFIdle /\ PAInit
SpecPA == InitPA /\ [][PANext]_vars

\* ------------------------------------------------------------------ claims
\* the terms of a text as the docstring of keyword_frequency describes them:
\* runs of letters of the lowercased text, without stop words and short words
Terms(t) ==
    SelectSeq(Runs(lower(t), 1, <<>>, Letters),
              LAMBDA w : w \notin STOP_WORDS /\ Len(w) > MinLenExclusive)

Occurrences(tokens, w) == Cardinality({i \in 1..Len(tokens) : tokens[i] = w})
FirstIndex(tokens, w) ==
    CHOOSE i \in 1..Len(tokens) : tokens[i] = w /\ \A j \in 1..(i - 1) : tokens[j] # w

RECURSIVE SumCounts(_)
SumCounts(r) == IF r = <<>> THEN 0 ELSE r[1][2] + SumCounts(Tail(r))

RankedTerms(r) == {r[i][1] : i \in 1..Len(r)}

SortedByCount(r) == \A i \in 1..(Len(r) - 1) : r[i][2] >= r[i + 1][2]
TiesByFirstOccurrence(r, tokens) ==
    \A i, j \in 1..Len(r) :
        (i < j /\ r[i][2] = r[j][2]) =>
            FirstIndex(tokens, r[i][1]) < FirstIndex(tokens, r[j][1])

\* the rankings of the documents merged: counts summed per term, terms in the
\* order first met, then ordered by descending sum (stable)
RECURSIVE Merged(_)
Merged(pairs) ==
    IF pairs = <<>> THEN <<>>
    ELSE LET front == Merged(SubSeq(pairs, 1, Len(pairs) - 1))
             last  == pairs[Len(pairs)]
         IN IF \E i \in 1..Len(front) : front[i][1] = last[1]
            THEN [i \in 1..Len(front) |->
                     IF front[i][1] = last[1]
                     THEN <<last[1], front[i][2] + last[2]>> ELSE front[i]]
            ELSE Append(front, last)

RECURSIVE Flatten(_)
Flatten(ss) == IF ss = <<>> THEN <<>> ELSE ss[1] \o Flatten(Tail(ss))

Aggregate(rankings) == SortDesc(Merged(Flatten(rankings)))

ShownKinds == {ui[i].kind : i \in 1..Len(ui)}
CallsTo(svc) == {i \in 1..Len(calls) : calls[i].svc = svc}
\* the run is over and it had search results to analyse
RunEndedWithResults == pc \in {"exception", "done"} /\ CallsTo("http") # {}
\* the run ended in an exception of the keyword analysis (not of the
\* generation service)
AnalysisAborted == pc = "exception" /\ ui[Len(ui)].line \in {181, 199}

\* C1: when the search returns no results, the run stops with the "no
\* results" error: no page is fetched, no keywords are computed, the
\* generation service is not called and no exception is shown.
C1_EmptyResultsStop ==
    (pc \notin {"sidebar", "query", "gate", "search", "done"}
        /\ search_results = <<>>) =>
        /\ pc \in {"check", "stopped"}
        /\ pc = "stopped" => ui[Len(ui)].kind = "error_no_results"
        /\ CallsTo("http") = {} /\ CallsTo("openai") = {}
        /\ kw_freq = None /\ global_kw = None
        /\ "exception" \notin ShownKinds

C1_Witness == pc = "stopped" /\ search_results = <<>> /\ Len(calls) = 1

\* C2: a document whose fetch failed or whose text is empty yields an empty
\* ranking and does not abort the run.
C2_EmptyDocumentHarmless ==
    (pc \in {"display", "exception"} /\ text = EmptyText) =>
        /\ ~AnalysisAborted
        /\ pc = "display" => kw_freq = <<>>

\* C3: when the run is over, the corpus-level ranking is the merge of the
\* documents' rankings: counts summed per term, ordered by descending sum;
\* the documents "kocka pes kocka" and "pes pes auto" give pes 3, kocka 2,
\* auto 1.
C3_CorpusRankingIsMerge ==
    RunEndedWithResults =>
        /\ ~AnalysisAborted
        /\ global_kw = Aggregate([i \in 1..Len(analyses) |-> analyses[i].top_keywords])
        /\ corpus = <<DocKockaPes, DocPesAuto>> =>
              global_kw = << <<Terms(DocPesAuto)[1], 3>>, <<Terms(DocKockaPes)[1], 2>>,
                             <<Terms(DocPesAuto)[3], 1>> >>

\* exceptions that report an invalid parameter
ConfigurationErrors == {"ValueError", "ConfigurationError"}

\* C4: keyword_frequency called with top_n <= 0 signals a configuration
\* error (an exception that reports the invalid top_n), for every text.
C4_NonPositiveTopNRejected ==
    (kfPc # "call" /\ kfPc # "idle" /\ kfTopN <= 0) =>
        (kfResult.raised /\ kfResult.exc \in ConfigurationErrors)

\* C5: for every text and top_n >= 1 keyword_frequency returns a ranking
\* sorted non-increasing by count, equal counts in order of first occurrence.
C5_RankingSorted ==
    (kfPc # "call" /\ kfPc # "idle" /\ kfTopN >= 1) =>
        /\ ~kfResult.raised
        /\ SortedByCount(kfResult.value)
        /\ TiesByFirstOccurrence(kfResult.value, Terms(kfText))

\* C6: for every text, with top_n >= 1 and at least the number of distinct
\* terms, the counts of the ranking keyword_frequency returns sum to the
\* number of terms of the text, and the ranking has one entry per term.
C6_CountsSumToTerms ==
    (kfPc # "call" /\ kfPc # "idle" /\ kfTopN >= 1
        /\ kfTopN >= Cardinality({Terms(kfText)[i] : i \in 1..Len(Terms(kfText))})) =>
        /\ ~kfResult.raised
        /\ SumCounts(kfResult.value) = Len(Terms(kfText))
        /\ RankedTerms(kfResult.value) = {Terms(kfText)[i] : i \in 1..Len(Terms(kfText))}
        /\ Len(kfResult.value) = Cardinality(RankedTerms(kfResult.value))

\* C7: the generation service is given two ranked keyword lists (the
\* frequency ranking and the corpus-weighted ranking) and the per-competitor
\* summaries.
C7_TwoRankingsGiven ==
    (paPc # "call" /\ paPc # "idle") =>
        /\ Cardinality({i \in 1..Len(paRequest.user) :
                            paRequest.user[i].kind = "ranking"}) = 2
        /\ \E i \in 1..Len(paRequest.user) : paRequest.user[i].kind = "summaries"

\* C8: a run without a SerpAPI key makes no search request, fetches no page,
\* computes no keywords and calls no generation service, and what it shows
\* is not the "no results" error.
C8_MissingKeyNoWork ==
    (pc # "sidebar" /\ SERPAPI_API_KEY = "") =>
        /\ pc \in {"query", "gate", "done"}
        /\ calls = <<>>
        /\ kw_freq = None /\ global_kw = None
        /\ "error_no_results" \notin ShownKinds /\ "exception" \notin ShownKinds
        /\ pc = "done" => ui[Len(ui)].kind = "info_enter_query_and_key"

C8_Witness == pc = "done" /\ SERPAPI_API_KEY = "" /\ query = "q1"

\* C9: a run with search results searches once, then fetches and analyses
\* every result exactly once in search order, and calls the generation
\* service exactly once, after the corpus-level ranking exists.
C9_StepsInOrder ==
    /\ Cardinality(CallsTo("serpapi")) <= 1
    /\ \A i \in CallsTo("http") : \E j \in CallsTo("serpapi") : j < i
    /\ RunEndedWithResults =>
          /\ Cardinality(CallsTo("http")) = Len(search_results)
          /\ Len(analyses) = Len(search_results)
          /\ \A i \in 1..Len(analyses) : analyses[i].url = search_results[i].link
          /\ Cardinality(CallsTo("openai")) = 1
          /\ \A i \in CallsTo("http") : \A j \in CallsTo("openai") : i < j
          /\ ~AnalysisAborted

\* C10: when the run is over, the corpus-level ranking is built from counts
\* that are, for every term, the sum of the term's occurrences in each
\* document's text: joining the texts with a space merges or splits no term.
C10_JoinPreservesCounts ==
    RunEndedWithResults =>
        /\ ~AnalysisAborted
        /\ \A w \in RankedTerms(Counter(Terms(all_text)))
                  \cup RankedTerms(Counter(Terms(Flatten(corpus)))) :
              /\ Occurrences(Terms(all_text), w)
                    = SumCounts([i \in 1..Len(corpus) |-> <<w, Occurrences(Terms(corpus[i]), w)>>])
        /\ global_kw = most_common(Counter(Terms(all_text)), DefaultTopN)

====
